---- MODULE Spec2Model ----
(***************************************************************************)
(* Model of CIFF.parse_ciff_file (src/ciff.py).                            *)
(*                                                                         *)
(* The parser is a single forward pass over a byte stream.  Every read of  *)
(* the source is one step of the model; a raise transfers control to the   *)
(* except clause of the function, which is a step of its own, followed by  *)
(* the return.                                                             *)
(*                                                                         *)
(* The file is a sequence of byte values.  In a "stream" run its content   *)
(* is revealed read by read: a read past the known content either extends  *)
(* the file by a chunk drawn from a small set or finds the end of the      *)
(* file.  In an "encoded" run the file is laid out beforehand from the     *)
(* wire format.  A "truncated" or "extended" run parses a file derived     *)
(* from one that a stream run has accepted.                                *)
(*                                                                         *)
(* Characters are modelled by their byte value.  The size fields drawn as  *)
(* inputs are small, so Python's unbounded integer arithmetic on them is   *)
(* exact in the model.                                                     *)
(***************************************************************************)
EXTENDS Integers, Sequences, FiniteSets, TLC

VARIABLES
    file,        \* the bytes of the file known so far
    eof,         \* TRUE when the file ends at Len(file)
    pos,         \* offset of the file object
    pc,          \* position of the call
    bytes_read,  \* local bytes_read
    char,        \* local char (byte value of the last decoded character)
    caption,     \* local caption
    tag,         \* local tag
    tags,        \* local tags
    new_ciff,    \* the CIFF object under construction
    exc,         \* the exception in flight
    run,         \* which kind of input this call parses
    expected     \* the values an encoded file was laid out from

vars == <<file, eof, pos, pc, bytes_read, char, caption, tag, tags,
          new_ciff, exc, run, expected>>

(***************************************************************************)
(* Bounds of the input space.                                              *)
(***************************************************************************)
MaxHeaderSize == 39   \* largest header_size value drawn for a stream run
MaxHeaderLen  == 40   \* caption and tag reads reveal bytes up to this offset
MaxFileLen    == 52   \* pixel and end-of-file reads reveal bytes up to this offset
MaxWidth      == 2
MaxHeight     == 2
MaxCaptionLen == 1    \* encoded runs: caption length
MaxTags       == 2    \* encoded runs: number of tags

(***************************************************************************)
(* Byte values.                                                            *)
(***************************************************************************)
\* the terminator written as the digit zero
NUL_Digit == 48

NUL == 0
NL == 10
Letters == {65}
NonAsciiBytes == {200}

CIFF_MAGIC == <<67, 73, 70, 70>>

Bytes == {NUL, NL} \cup Letters \cup NonAsciiBytes

Min(a, b) == IF a < b THEN a ELSE b

\* struct.pack("Q", v) on a little-endian host; used to lay out input files
RECURSIVE PackN(_, _)
PackN(v, n) == IF n = 0 THEN <<>> ELSE <<v % 256>> \o PackN(v \div 256, n - 1)

Pack(v) == PackN(v, 8)

\* struct.unpack("Q", b)[0]
RECURSIVE Unpack(_)
Unpack(b) == IF b = <<>> THEN 0 ELSE b[1] + 256 * Unpack(Tail(b))

\* every byte value decodes, as with 'latin-1'
Decodable_Latin1(b) == TRUE

\* bytes.decode('ascii') succeeds
Decodable(b) == \A i \in 1..Len(b) : b[i] < 128

\* only an empty read counts as short
ShortRead_OnlyEmpty(data, n) == Len(data) = 0

\* len(x) != n after x = ciff_file.read(n)
ShortRead(data, n) == Len(data) # n

MinHeaderSize == 38

\* the minimum itself is refused
HeaderSizeOk_Strict(h) == ~(h <= MinHeaderSize)

\* the bound is one too low
HeaderSizeOk_Lax(h) == ~(h < MinHeaderSize - 1)

HeaderSizeOk(h) == ~(h < MinHeaderSize)

\* only the first two characters are compared
MagicMismatch_Prefix(m) == SubSeq(m, 1, 2) # SubSeq(CIFF_MAGIC, 1, 2)

\* new_ciff.magic != "CIFF"
MagicMismatch(m) == m # CIFF_MAGIC

(***************************************************************************)
(* Python integers are unbounded.  Where a value can exceed the range of   *)
(* the model checker's integers it is held as the sequence of its base-256 *)
(* digits, least significant first and without leading zero digits; these  *)
(* are the bytes struct.unpack("Q", b) reads on a little-endian host.      *)
(***************************************************************************)
RECURSIVE Norm(_)
Norm(d) ==
    CHOOSE r \in {IF t = <<>> THEN <<>>
                  ELSE IF t[Len(t)] = 0 THEN Norm(SubSeq(t, 1, Len(t) - 1))
                  ELSE t : t \in {d}} : TRUE

RECURSIVE Digits(_)
Digits(n) ==
    CHOOSE r \in {IF t = 0 THEN <<>> ELSE <<t % 256>> \o Digits(t \div 256) :
                     t \in {n}} : TRUE

\* struct.unpack("Q", b)[0] as an unbounded integer
UnpackDigits(b) == Norm(b)

\* In Norm and the three operators below the result is the one element of
\* a set whose bound variable t holds the evaluated operands.

\* d * k + carry, for a digit k
RECURSIVE MulDigit(_, _, _)
MulDigit(d, k, carry) ==
    CHOOSE r \in {IF t[1] = <<>> THEN Digits(t[3])
                  ELSE <<(t[1][1] * t[2] + t[3]) % 256>>
                       \o MulDigit(Tail(t[1]), t[2],
                                   (t[1][1] * t[2] + t[3]) \div 256) :
                     t \in {<<d, k, carry>>}} : TRUE

\* a + b + carry
RECURSIVE AddDigits(_, _, _)
AddDigits(a, b, carry) ==
    CHOOSE r \in {IF t[1] = <<>> /\ t[2] = <<>> THEN Digits(t[3])
                  ELSE IF t[1] = <<>> THEN AddDigits(<<0>>, t[2], t[3])
                  ELSE IF t[2] = <<>> THEN AddDigits(t[1], <<0>>, t[3])
                  ELSE <<(t[1][1] + t[2][1] + t[3]) % 256>>
                       \o AddDigits(Tail(t[1]), Tail(t[2]),
                                    (t[1][1] + t[2][1] + t[3]) \div 256) :
                     t \in {<<a, b, carry>>}} : TRUE

RECURSIVE MulDigits(_, _)
MulDigits(a, b) ==
    CHOOSE r \in {IF t[2] = <<>> THEN <<>>
                  ELSE AddDigits(MulDigit(t[1], t[2][1], 0),
                                 <<0>> \o MulDigits(t[1], Tail(t[2])), 0) :
                     t \in {<<a, b>>}} : TRUE

\* a * b
IntMul(a, b) == Norm(MulDigits(a, b))

\* the value modulo 2^64
Wrap64(d) == Norm(SubSeq(d, 1, Min(8, Len(d))))

\* the product is taken in 64-bit arithmetic
ContentSizeOk_Wrap(c, w, h) == ~(c # Wrap64(IntMul(IntMul(w, h), Digits(3))))

\* the factor 3 is left out
ContentSizeOk_NoFactor(c, w, h) == ~(c # IntMul(w, h))

\* new_ciff.content_size != new_ciff.width * new_ciff.height * 3,
\* on the digits of the three integers
ContentSizeOk(c, w, h) == ~(c # IntMul(IntMul(w, h), Digits(3)))

\* the caption ends at the first null byte
CaptionLoopCond_Nul(c) == c # NUL

\* while char != '\n'
CaptionLoopCond(c) == c # NL

\* the newline test of the tag loop is never true
TagNewline_Never(c) == FALSE

\* if char == '\n' (in the tag loop)
TagNewline(c) == c = NL

\* the test is inverted
TagEnds_Inverted(c) == c # NUL

\* if char == '\0'
TagEnds(c) == c = NUL

\* the tag buffer is not emptied
TagAfterAppend_Kept(t) == t

\* tag = "" after tags.append(tag)
TagAfterAppend(t) == <<>>

\* the loop stops as soon as the counter has passed header_size
TagLoopCond_Less(br, hs) == br < hs

\* while bytes_read != new_ciff.header_size
TagLoopCond(br, hs) == br # hs

\* one pixel too many
PixelLoopCond_Inclusive(br, hs, cs) == br <= hs + cs

\* while bytes_read < new_ciff.header_size+new_ciff.content_size
PixelLoopCond(br, hs, cs) == br < hs + cs

\* except IOError
Catches_OnlyIO(cls) == cls \in {"OSError"}

\* except Exception
Catches(cls) == cls \in {"Exception", "UnicodeDecodeError", "OSError", "IndexError"}

\* str(e)
ExcStr(e) == e.msg

NoExc == [cls |-> "", msg |-> ""]

\* CIFF()
NewCiff ==
    [magic |-> CIFF_MAGIC, header_size |-> 0, content_size |-> 0,
     width |-> 0, height |-> 0, caption |-> <<>>, tags |-> <<>>,
     pixels |-> <<>>, is_valid |-> TRUE, error_message |-> ""]

(***************************************************************************)
(* Input chunks of the stream runs.                                        *)
(***************************************************************************)
MagicChunks == {CIFF_MAGIC, <<67, 73, 71, 70>>, <<67, 73, 200, 70>>}
HeaderSizes == {0} \cup ((MinHeaderSize - 1)..MaxHeaderSize)
Widths == 0..MaxWidth
Heights == 0..MaxHeight
ContentSizes == {3 * n : n \in 0..(MaxWidth * MaxHeight)} \cup {4}
FieldChunks(S) == {Pack(v) : v \in S}
ByteChunks == {<<b>> : b \in Bytes}
PixelA == <<10, 20, 30>>
PixelB == <<255, 0, 10>>
PixelChunks == {PixelA, PixelB}

(***************************************************************************)
(* ciff_file.read(n): the outcomes of a read of n bytes at offset pos.     *)
(* When the end of the file is known the read is determined; otherwise     *)
(* the file goes on with a chunk of Chunks (up to offset Limit) or ends    *)
(* within it.                                                              *)
(***************************************************************************)
ReadOutcomes(n, Chunks, Limit) ==
    IF eof
    THEN {[data |-> SubSeq(file, pos + 1, Min(pos + n, Len(file))),
           file |-> file, eof |-> TRUE]}
    ELSE {[data |-> c, file |-> file \o c, eof |-> FALSE] :
             c \in IF Len(file) + n <= Limit THEN Chunks ELSE {}}
         \cup
         {[data |-> SubSeq(c[1], 1, c[2]),
           file |-> file \o SubSeq(c[1], 1, c[2]), eof |-> TRUE] :
             c \in Chunks \X (0..(n - 1))}

Consume(r) ==
    /\ file' = r.file
    /\ eof' = r.eof
    /\ pos' = pos + Len(r.data)

Raise(cls, msg) ==
    /\ pc' = "except"
    /\ exc' = [cls |-> cls, msg |-> msg]

Goto(l) ==
    /\ pc' = l
    /\ exc' = exc

DecodeError == "'ascii' codec can't decode byte"

(***************************************************************************)
(* The steps of parse_ciff_file.                                           *)
(***************************************************************************)
Open ==
    /\ pc = "open"
    /\ \/ Goto("magic")
       \/ Raise("OSError", "[Errno 2] No such file or directory")
    /\ UNCHANGED <<file, eof, pos, bytes_read, char, caption, tag, tags,
                   new_ciff, run, expected>>

\* the decoded characters are compared before they are stored
ReadMagic_KeepDefault ==
    /\ pc = "magic"
    /\ \E r \in ReadOutcomes(4, MagicChunks, MaxFileLen) :
        /\ Consume(r)
        /\ IF ShortRead(r.data, 4)
           THEN /\ Raise("Exception", "Couldn't read 4 magic bytes")
                /\ UNCHANGED <<bytes_read, new_ciff>>
           ELSE /\ bytes_read' = bytes_read + 4
                /\ IF ~Decodable(r.data)
                   THEN /\ Raise("UnicodeDecodeError", DecodeError)
                        /\ UNCHANGED new_ciff
                   ELSE IF MagicMismatch(r.data)
                   THEN /\ new_ciff' = [new_ciff EXCEPT !.is_valid = FALSE]
                        /\ Raise("Exception", "Error parsing magic bytes")
                   ELSE /\ new_ciff' = [new_ciff EXCEPT !.magic = r.data]
                        /\ Goto("hsize")
    /\ UNCHANGED <<char, caption, tag, tags, run, expected>>

ReadMagic ==
    /\ pc = "magic"
    /\ \E r \in ReadOutcomes(4, MagicChunks, MaxFileLen) :
        /\ Consume(r)
        /\ IF ShortRead(r.data, 4)
           THEN /\ Raise("Exception", "Couldn't read 4 magic bytes")
                /\ UNCHANGED <<bytes_read, new_ciff>>
           ELSE /\ bytes_read' = bytes_read + 4
                /\ IF ~Decodable(r.data)
                   THEN /\ Raise("UnicodeDecodeError", DecodeError)
                        /\ UNCHANGED new_ciff
                   ELSE IF MagicMismatch(r.data)
                   THEN /\ new_ciff' = [new_ciff EXCEPT !.magic = r.data,
                                                        !.is_valid = FALSE]
                        /\ Raise("Exception", "Error parsing magic bytes")
                   ELSE /\ new_ciff' = [new_ciff EXCEPT !.magic = r.data]
                        /\ Goto("hsize")
    /\ UNCHANGED <<char, caption, tag, tags, run, expected>>

ReadHeaderSize ==
    /\ pc = "hsize"
    /\ \E r \in ReadOutcomes(8, FieldChunks(HeaderSizes), MaxFileLen) :
        /\ Consume(r)
        /\ IF ShortRead(r.data, 8)
           THEN /\ Raise("Exception", "Invalid image format: header size")
                /\ UNCHANGED <<bytes_read, new_ciff>>
           ELSE /\ bytes_read' = bytes_read + 8
                /\ new_ciff' = [new_ciff EXCEPT !.header_size = Unpack(r.data)]
                /\ IF ~HeaderSizeOk(Unpack(r.data))
                   THEN Raise("Exception", "Invalid image format: header size")
                   ELSE Goto("csize")
    /\ UNCHANGED <<char, caption, tag, tags, run, expected>>

ReadContentSize ==
    /\ pc = "csize"
    /\ \E r \in ReadOutcomes(8, FieldChunks(ContentSizes), MaxFileLen) :
        /\ Consume(r)
        /\ IF ShortRead(r.data, 8)
           THEN /\ Raise("Exception", "Invalid image format: content size")
                /\ UNCHANGED <<bytes_read, new_ciff>>
           ELSE /\ bytes_read' = bytes_read + 8
                /\ new_ciff' = [new_ciff EXCEPT !.content_size = Unpack(r.data)]
                /\ Goto("width")
    /\ UNCHANGED <<char, caption, tag, tags, run, expected>>

ReadWidth ==
    /\ pc = "width"
    /\ \E r \in ReadOutcomes(8, FieldChunks(Widths), MaxFileLen) :
        /\ Consume(r)
        /\ IF ShortRead(r.data, 8)
           THEN /\ Raise("Exception", "Invalid image format: width")
                /\ UNCHANGED <<bytes_read, new_ciff>>
           ELSE /\ bytes_read' = bytes_read + 8
                /\ new_ciff' = [new_ciff EXCEPT !.width = Unpack(r.data)]
                /\ Goto("height")
    /\ UNCHANGED <<char, caption, tag, tags, run, expected>>

ReadHeight ==
    /\ pc = "height"
    /\ \E r \in ReadOutcomes(8, FieldChunks(Heights), MaxFileLen) :
        /\ Consume(r)
        /\ IF ShortRead(r.data, 8)
           THEN /\ Raise("Exception", "Invalid image format: height")
                /\ UNCHANGED <<bytes_read, new_ciff>>
           ELSE /\ bytes_read' = bytes_read + 8
                /\ new_ciff' = [new_ciff EXCEPT !.height = Unpack(r.data)]
                /\ IF ~ContentSizeOk(Digits(new_ciff.content_size),
                                     Digits(new_ciff.width),
                                     Digits(Unpack(r.data)))
                   THEN Raise("Exception",
                        "Invalid image format: content size not equal to width*height*3")
                   ELSE Goto("caption")
    /\ UNCHANGED <<char, caption, tag, tags, run, expected>>

CaptionFirst ==
    /\ pc = "caption"
    /\ caption' = <<>>
    /\ \E r \in ReadOutcomes(1, ByteChunks, MaxHeaderLen) :
        /\ Consume(r)
        /\ IF ShortRead(r.data, 1)
           THEN /\ Raise("Exception", "Invalid image format: caption format")
                /\ UNCHANGED <<bytes_read, char>>
           ELSE /\ bytes_read' = bytes_read + 1
                /\ IF ~Decodable(r.data)
                   THEN /\ Raise("UnicodeDecodeError", DecodeError)
                        /\ UNCHANGED char
                   ELSE /\ char' = r.data[1]
                        /\ Goto("caploop")
    /\ UNCHANGED <<tag, tags, new_ciff, run, expected>>

CaptionLoop ==
    /\ pc = "caploop"
    /\ IF CaptionLoopCond(char)
       THEN /\ caption' = Append(caption, char)
            /\ \E r \in ReadOutcomes(1, ByteChunks, MaxHeaderLen) :
                /\ Consume(r)
                /\ IF ShortRead(r.data, 1)
                   THEN /\ Raise("Exception", "Invalid image: caption")
                        /\ UNCHANGED <<bytes_read, char>>
                   ELSE /\ bytes_read' = bytes_read + 1
                        /\ IF ~Decodable(r.data)
                           THEN /\ Raise("UnicodeDecodeError", DecodeError)
                                /\ UNCHANGED char
                           ELSE /\ char' = r.data[1]
                                /\ Goto("caploop")
            /\ UNCHANGED <<tag, tags, new_ciff>>
       ELSE /\ new_ciff' = [new_ciff EXCEPT !.caption = caption]
            /\ tags' = <<>>
            /\ tag' = <<>>
            /\ Goto("tags")
            /\ UNCHANGED <<file, eof, pos, bytes_read, char, caption>>
    /\ UNCHANGED <<run, expected>>

TagLoop ==
    /\ pc = "tags"
    /\ IF TagLoopCond(bytes_read, new_ciff.header_size)
       THEN \E r \in ReadOutcomes(1, ByteChunks, MaxHeaderLen) :
            /\ Consume(r)
            /\ IF ShortRead(r.data, 1)
               THEN /\ Raise("Exception", "Invalid image: tags")
                    /\ UNCHANGED <<bytes_read, char, tag, tags>>
               ELSE /\ bytes_read' = bytes_read + 1
                    /\ IF ~Decodable(r.data)
                       THEN /\ Raise("UnicodeDecodeError", DecodeError)
                            /\ UNCHANGED <<char, tag, tags>>
                       ELSE /\ char' = r.data[1]
                            /\ IF TagNewline(r.data[1])
                               THEN /\ Raise("Exception", "Invalid image: tags")
                                    /\ UNCHANGED <<tag, tags>>
                               ELSE /\ tag' = IF TagEnds(r.data[1])
                                              THEN TagAfterAppend(Append(tag, r.data[1]))
                                              ELSE Append(tag, r.data[1])
                                    /\ tags' = IF TagEnds(r.data[1])
                                               THEN Append(tags, Append(tag, r.data[1]))
                                               ELSE tags
                                    /\ IF bytes_read + 1 = new_ciff.header_size
                                          /\ r.data[1] # NUL
                                       THEN Raise("Exception", "Invalid image: tags")
                                       ELSE Goto("tags")
       ELSE /\ Goto("tagcheck")
            /\ UNCHANGED <<file, eof, pos, bytes_read, char, tag, tags>>
    /\ UNCHANGED <<caption, new_ciff, run, expected>>

\* the first tag of the list the for loop raises on, 0 if none
FirstBadTag(ts) ==
    IF \E i \in 1..Len(ts) : ts[i] = <<>> \/ ts[i][Len(ts[i])] # NUL
    THEN CHOOSE i \in 1..Len(ts) :
            /\ ts[i] = <<>> \/ ts[i][Len(ts[i])] # NUL
            /\ \A j \in 1..(i - 1) : ts[j] # <<>> /\ ts[j][Len(ts[j])] = NUL
    ELSE 0

VerifyTags ==
    /\ pc = "tagcheck"
    /\ IF FirstBadTag(tags) # 0
       THEN /\ IF tags[FirstBadTag(tags)] = <<>>
               THEN Raise("IndexError", "string index out of range")
               ELSE Raise("Exception", "Invalid image: tags")
            /\ tag' = tags[FirstBadTag(tags)]
            /\ UNCHANGED new_ciff
       ELSE /\ new_ciff' = [new_ciff EXCEPT !.tags = tags]
            /\ tag' = IF tags = <<>> THEN tag ELSE tags[Len(tags)]
            /\ Goto("pixels")
    /\ UNCHANGED <<file, eof, pos, bytes_read, char, caption, tags, run, expected>>

PixelLoop ==
    /\ pc = "pixels"
    /\ IF PixelLoopCond(bytes_read, new_ciff.header_size, new_ciff.content_size)
       THEN \E r \in ReadOutcomes(3, PixelChunks, MaxFileLen) :
            /\ Consume(r)
            /\ IF ShortRead(r.data, 3)
               THEN /\ Raise("Exception", "Invalid image: content")
                    /\ UNCHANGED <<bytes_read, new_ciff>>
               ELSE /\ bytes_read' = bytes_read + 3
                    /\ new_ciff' = [new_ciff EXCEPT
                                      !.pixels = Append(new_ciff.pixels, r.data)]
                    /\ Goto("pixels")
       ELSE /\ Goto("eof")
            /\ UNCHANGED <<file, eof, pos, bytes_read, new_ciff>>
    /\ UNCHANGED <<char, caption, tag, tags, run, expected>>

\* the end of the file is not looked at
EndOfFile_NoCheck ==
    /\ pc = "eof"
    /\ Goto("return")
    /\ UNCHANGED <<file, eof, pos, bytes_read, char, caption, tag, tags,
                   new_ciff, run, expected>>

EndOfFile ==
    /\ pc = "eof"
    /\ \E r \in ReadOutcomes(1, ByteChunks, MaxFileLen) :
        /\ Consume(r)
        /\ IF Len(r.data) # 0
           THEN Raise("Exception", "Invalid image: content")
           ELSE Goto("return")
    /\ UNCHANGED <<bytes_read, char, caption, tag, tags, new_ciff, run, expected>>

\* the handler records the message and leaves the flag alone
Handler_NoFlag ==
    /\ pc = "except"
    /\ new_ciff' = [new_ciff EXCEPT !.error_message = ExcStr(exc)]
    /\ pc' = "return"
    /\ UNCHANGED <<file, eof, pos, bytes_read, char, caption, tag, tags,
                   exc, run, expected>>

\* except Exception as e: an exception of another class leaves the call
Handler ==
    /\ pc = "except"
    /\ IF Catches(exc.cls)
       THEN /\ new_ciff' = [new_ciff EXCEPT !.is_valid = FALSE,
                                            !.error_message = ExcStr(exc)]
            /\ pc' = "return"
       ELSE /\ pc' = "escaped"
            /\ UNCHANGED new_ciff
    /\ UNCHANGED <<file, eof, pos, bytes_read, char, caption, tag, tags,
                   exc, run, expected>>

Return ==
    /\ pc = "return"
    /\ pc' = "done"
    /\ UNCHANGED <<file, eof, pos, bytes_read, char, caption, tag, tags,
                   new_ciff, exc, run, expected>>

ParseStep ==
    \/ Open
    \/ ReadMagic
    \/ ReadHeaderSize
    \/ ReadContentSize
    \/ ReadWidth
    \/ ReadHeight
    \/ CaptionFirst
    \/ CaptionLoop
    \/ TagLoop
    \/ VerifyTags
    \/ PixelLoop
    \/ EndOfFile
    \/ Handler
    \/ Return

(***************************************************************************)
(* Calls of parse_ciff_file.                                               *)
(***************************************************************************)
NoExpected ==
    [header_size |-> 0, content_size |-> 0, width |-> 0, height |-> 0,
     caption |-> <<>>, tags |-> <<>>, pixels |-> <<>>]

\* the state at the start of a call on file f
Call(f, e, r, x) ==
    /\ file = f
    /\ eof = e
    /\ pos = 0
    /\ pc = "open"
    /\ bytes_read = 0
    /\ char = NUL
    /\ caption = <<>>
    /\ tag = <<>>
    /\ tags = <<>>
    /\ new_ciff = NewCiff
    /\ exc = NoExc
    /\ run = r
    /\ expected = x

SeqsUpTo(S, n) == UNION {[1..k -> S] : k \in 0..n}

RECURSIVE Flatten(_)
Flatten(ss) == IF ss = <<>> THEN <<>> ELSE ss[1] \o Flatten(Tail(ss))

\* the pixel rows an encoded run lays out: the two pixels alternate
EncPixels(n) ==
    {[i \in 1..n |-> IF (i + k) % 2 = 0 THEN PixelA ELSE PixelB] : k \in 0..1}

\* the images an encoded run lays out
EncTags == {<<NUL>>} \cup {<<c, NUL>> : c \in Letters}

Encodables ==
    UNION {
      {[header_size |-> 36 + Len(c) + 1 + Len(Flatten(t)),
        content_size |-> w * h * 3, width |-> w, height |-> h,
        caption |-> c, tags |-> t, pixels |-> p] :
          p \in EncPixels(w * h)} :
      <<c, t, w, h>> \in SeqsUpTo({NUL} \cup Letters, MaxCaptionLen)
                        \X (SeqsUpTo(EncTags, MaxTags) \ {<<>>})
                        \X Widths \X Heights}

\* the wire format
Layout(e) ==
    CIFF_MAGIC \o Pack(e.header_size) \o Pack(e.content_size)
       \o Pack(e.width) \o Pack(e.height)
       \o e.caption \o <<NL>> \o Flatten(e.tags) \o Flatten(e.pixels)

Init ==
    \/ Call(<<>>, FALSE, "stream", NoExpected)
    \/ \E e \in Encodables : Call(Layout(e), TRUE, "encoded", e)

\* a new call starts on file f
Restart(f, r) ==
    /\ file' = f
    /\ eof' = TRUE
    /\ pos' = 0
    /\ pc' = "open"
    /\ bytes_read' = 0
    /\ char' = NUL
    /\ caption' = <<>>
    /\ tag' = <<>>
    /\ tags' = <<>>
    /\ new_ciff' = NewCiff
    /\ exc' = NoExc
    /\ run' = r
    /\ expected' = NoExpected

\* a new call on a proper prefix of a file that a call has accepted
Truncate ==
    /\ pc = "done"
    /\ run = "stream"
    /\ new_ciff.is_valid
    /\ \E k \in 0..(Len(file) - 1) :
         Restart(SubSeq(file, 1, k), "truncated")

\* a new call on an accepted file with one more byte at its end
Extend ==
    /\ pc = "done"
    /\ run = "stream"
    /\ new_ciff.is_valid
    /\ \E b \in Bytes :
         Restart(Append(file, b), "extended")

Next ==
    \/ ParseStep
    \/ Truncate
    \/ Extend

Spec == Init /\ [][Next]_vars

\* the call runs on: a sequential program takes its next step
LiveSpec == Spec /\ WF_vars(ParseStep)

TypeOK ==
    /\ pos <= Len(file)
    /\ ~eof => pos = Len(file)
    /\ pc \in {"open", "magic", "hsize", "csize", "width", "height", "caption",
               "caploop", "tags", "tagcheck", "pixels", "eof", "except",
               "return", "done", "escaped"}
    /\ run \in {"stream", "encoded", "truncated", "extended", "wide"}

(***************************************************************************)
(* The size fields over their whole 64-bit range.  A "wide" run is the     *)
(* call up to the comparison of line 261, with content_size, width and     *)
(* height held as the digits of the unbounded integers that unpack         *)
(* returns; the chunks drawn include values whose product passes 2^64.     *)
(***************************************************************************)
WideDims ==
    {Pack(0), Pack(1), Pack(2),
     <<0, 0, 0, 0, 1, 0, 0, 0>>,
     <<0, 0, 0, 0, 0, 0, 0, 128>>,
     <<255, 255, 255, 255, 255, 255, 255, 255>>}

WideContentSizes ==
    {Pack(0), Pack(3), Pack(6),
     <<0, 0, 0, 0, 3, 0, 0, 0>>,
     <<0, 0, 0, 0, 0, 0, 0, 128>>,
     <<253, 255, 255, 255, 255, 255, 255, 255>>}

WideReadContentSize ==
    /\ pc = "csize"
    /\ \E r \in ReadOutcomes(8, WideContentSizes, MaxFileLen) :
        /\ Consume(r)
        /\ IF ShortRead(r.data, 8)
           THEN /\ Raise("Exception", "Invalid image format: content size")
                /\ UNCHANGED <<bytes_read, new_ciff>>
           ELSE /\ bytes_read' = bytes_read + 8
                /\ new_ciff' = [new_ciff EXCEPT
                                  !.content_size = UnpackDigits(r.data)]
                /\ Goto("width")
    /\ UNCHANGED <<char, caption, tag, tags, run, expected>>

WideReadWidth ==
    /\ pc = "width"
    /\ \E r \in ReadOutcomes(8, WideDims, MaxFileLen) :
        /\ Consume(r)
        /\ IF ShortRead(r.data, 8)
           THEN /\ Raise("Exception", "Invalid image format: width")
                /\ UNCHANGED <<bytes_read, new_ciff>>
           ELSE /\ bytes_read' = bytes_read + 8
                /\ new_ciff' = [new_ciff EXCEPT !.width = UnpackDigits(r.data)]
                /\ Goto("height")
    /\ UNCHANGED <<char, caption, tag, tags, run, expected>>

WideReadHeight ==
    /\ pc = "height"
    /\ \E r \in ReadOutcomes(8, WideDims, MaxFileLen) :
        /\ Consume(r)
        /\ IF ShortRead(r.data, 8)
           THEN /\ Raise("Exception", "Invalid image format: height")
                /\ UNCHANGED <<bytes_read, new_ciff>>
           ELSE /\ bytes_read' = bytes_read + 8
                /\ new_ciff' = [new_ciff EXCEPT !.height = UnpackDigits(r.data)]
                /\ IF ~ContentSizeOk(new_ciff.content_size, new_ciff.width,
                                     UnpackDigits(r.data))
                   THEN Raise("Exception",
                        "Invalid image format: content size not equal to width*height*3")
                   ELSE Goto("caption")
    /\ UNCHANGED <<char, caption, tag, tags, run, expected>>

WideInit == Call(<<>>, FALSE, "wide", NoExpected)

WideNext ==
    \/ Open
    \/ ReadMagic
    \/ ReadHeaderSize
    \/ WideReadContentSize
    \/ WideReadWidth
    \/ WideReadHeight
    \/ Handler
    \/ Return

WideSpec == WideInit /\ [][WideNext]_vars

(***************************************************************************)
(* Properties of the returned record.                                      *)
(***************************************************************************)
Returned == pc = "done"

Accepted == Returned /\ new_ciff.is_valid

Opened == exc.cls # "OSError"

\* C1: a file laid out exactly as the wire format says (one or more tags,
\* width or height 0 included) is accepted, with an empty error message and
\* with every field equal to the value it was laid out from, in stream order.
C1_Completeness ==
    (Returned /\ run = "encoded" /\ Opened) =>
        /\ new_ciff.is_valid
        /\ new_ciff.error_message = ""
        /\ new_ciff.header_size = expected.header_size
        /\ new_ciff.content_size = expected.content_size
        /\ new_ciff.width = expected.width
        /\ new_ciff.height = expected.height
        /\ new_ciff.caption = expected.caption
        /\ new_ciff.tags = expected.tags
        /\ new_ciff.pixels = expected.pixels

C1_Witness ==
    /\ Accepted
    /\ run = "encoded"
    /\ Len(expected.caption) = 1
    /\ Len(expected.tags) = 2
    /\ Len(expected.tags[1]) = 2
    /\ Len(expected.pixels) = 2
    /\ expected.pixels[1] # expected.pixels[2]
    /\ new_ciff.pixels = expected.pixels

\* C2: every call terminates with a returned record, and every raise (short
\* read, decode failure, constraint violation, failure to open) ends in a
\* returned record with is_valid = false; nothing leaves the call.
C2_Total ==
    /\ (pc # "done") ~> (pc = "done")
    /\ (pc = "except") ~> (pc = "done" /\ ~new_ciff.is_valid)

C2_Witness ==
    /\ Returned
    /\ ~new_ciff.is_valid
    /\ exc.cls = "UnicodeDecodeError"
    /\ bytes_read > 36

\* C3: on every returned record error_message is non-empty exactly when
\* is_valid is false.
C3_MessageIffInvalid ==
    Returned => ((new_ciff.error_message # "") <=> ~new_ciff.is_valid)

C3_Witness ==
    /\ Returned
    /\ ~new_ciff.is_valid
    /\ new_ciff.error_message = "Invalid image: tags"

\* C4: an accepted record has content_size = width * height * 3 and
\* width * height pixels.
C4_SizeIdentity ==
    Accepted =>
        /\ new_ciff.content_size = new_ciff.width * new_ciff.height * 3
        /\ Len(new_ciff.pixels) = new_ciff.width * new_ciff.height

C4_Witness ==
    /\ Accepted
    /\ run = "stream"
    /\ new_ciff.width = 2
    /\ new_ciff.height = 2
    /\ Len(new_ciff.pixels) = 4

\* C5: when a record is accepted the bytes consumed are header_size +
\* content_size and that is the length of the file; the pixel loop starts at
\* offset header_size.
C5_ConsumedAll ==
    /\ Accepted =>
        /\ bytes_read = new_ciff.header_size + new_ciff.content_size
        /\ pos = bytes_read
        /\ eof
        /\ Len(file) = new_ciff.header_size + new_ciff.content_size
    /\ pc = "pixels" =>
        /\ bytes_read = new_ciff.header_size + 3 * Len(new_ciff.pixels)
        /\ pos = bytes_read

C5_Witness ==
    /\ Accepted
    /\ run = "stream"
    /\ new_ciff.content_size = 6
    /\ new_ciff.header_size = 39
    /\ Len(file) = 45

\* C6: when a record is accepted the byte at offset header_size - 1 is a null
\* byte that ends the last tag; a header whose last byte is the newline of
\* the caption, with no tag, is not accepted.
C6_HeaderEndsWithTag ==
    Accepted =>
        /\ new_ciff.tags # <<>>
        /\ file[new_ciff.header_size] = 0

\* C7 as stated: the caption of an accepted record holds neither a null byte
\* nor a newline.
C7_CaptionNoNulNoNewline ==
    Accepted =>
        \A i \in 1..Len(new_ciff.caption) :
            new_ciff.caption[i] # 0 /\ new_ciff.caption[i] # 10

\* C7 amended: the caption of an accepted record holds no newline; it is the
\* bytes of the file from offset 36 up to the first newline, null bytes included.
C7_CaptionNoNewline ==
    Accepted =>
        /\ \A i \in 1..Len(new_ciff.caption) : new_ciff.caption[i] # 10
        /\ new_ciff.caption = SubSeq(file, 37, 36 + Len(new_ciff.caption))
        /\ file[37 + Len(new_ciff.caption)] = 10

C7_Witness ==
    /\ Accepted
    /\ run = "stream"
    /\ Len(new_ciff.caption) = 1
    /\ new_ciff.caption[1] = 0

\* C8: every tag of an accepted record ends with a null byte.
C8_TagsEndWithNull ==
    Accepted =>
        \A i \in 1..Len(new_ciff.tags) :
            /\ new_ciff.tags[i] # <<>>
            /\ new_ciff.tags[i][Len(new_ciff.tags[i])] = 0

C8_Witness ==
    /\ Accepted
    /\ run = "stream"
    /\ Len(new_ciff.tags) = 2
    /\ new_ciff.content_size > 0

\* C9: every proper prefix of an accepted file is rejected.
C9_TruncationRejected ==
    (Returned /\ run = "truncated") => ~new_ciff.is_valid

C9_Witness ==
    /\ Returned
    /\ run = "truncated"
    /\ ~new_ciff.is_valid
    /\ Opened
    /\ Len(file) = new_ciff.header_size + new_ciff.content_size - 1
    /\ new_ciff.content_size > 0

\* C10: an accepted file with one more byte at its end is rejected.
C10_TrailingRejected ==
    (Returned /\ run = "extended") => ~new_ciff.is_valid

C10_Witness ==
    /\ Returned
    /\ run = "extended"
    /\ ~new_ciff.is_valid
    /\ Opened
    /\ bytes_read = new_ciff.header_size + new_ciff.content_size
    /\ pos = bytes_read + 1
    /\ Len(file) = pos
\* the first four bytes of the file are there and are not the bytes of "CIFF"
WrongMagic ==
    /\ Opened
    /\ Len(file) >= 4
    /\ SubSeq(file, 1, 4) # <<67, 73, 70, 70>>

\* C11 as stated: a file whose first four bytes are not "CIFF", ASCII or not,
\* is rejected with the magic-specific message.
C11_WrongMagicMessage ==
    (Returned /\ WrongMagic) =>
        /\ ~new_ciff.is_valid
        /\ new_ciff.error_message = "Error parsing magic bytes"

\* C11 amended: a file whose first four bytes are not "CIFF" is rejected after
\* these four bytes, whatever follows; the message is the magic-specific one
\* when the four bytes are ASCII and the decode error of the codec when one of
\* them is not.
C11_WrongMagicRejected ==
    (Returned /\ WrongMagic) =>
        /\ ~new_ciff.is_valid
        /\ pos = 4
        /\ new_ciff.error_message =
              IF \A i \in 1..4 : file[i] < 128
              THEN "Error parsing magic bytes"
              ELSE "'ascii' codec can't decode byte"

C11_Witness ==
    /\ Returned
    /\ WrongMagic
    /\ file[3] = 71
    /\ new_ciff.error_message = "Error parsing magic bytes"
\* C12: when the first four bytes are ASCII and are not "CIFF", the magic field
\* of the returned record holds these four characters, not the default, and
\* no byte after them has been read.
C12_WrongMagicRecorded ==
    (Returned /\ WrongMagic /\ \A i \in 1..4 : file[i] < 128) =>
        /\ ~new_ciff.is_valid
        /\ new_ciff.magic = SubSeq(file, 1, 4)
        /\ new_ciff.magic # <<67, 73, 70, 70>>
        /\ pos = 4
        /\ bytes_read = 4

C12_Witness ==
    /\ Returned
    /\ WrongMagic
    /\ new_ciff.magic = <<67, 73, 71, 70>>
    /\ ~eof
\* the file starts with "CIFF" and its header_size field is there
HasHeaderSize ==
    /\ Opened
    /\ Len(file) >= 12
    /\ SubSeq(file, 1, 4) = <<67, 73, 70, 70>>

FileHeaderSize == Unpack(SubSeq(file, 5, 12))

\* C13: a file with magic "CIFF" and a header_size field below 38 is rejected
\* with the header-size message right after that field: 12 bytes have been
\* consumed and content_size, width, height, caption, tags and pixels have
\* their initial values, whatever follows byte 12.
C13_HeaderSizeMinimum ==
    (Returned /\ HasHeaderSize /\ FileHeaderSize < 38) =>
        /\ ~new_ciff.is_valid
        /\ new_ciff.error_message = "Invalid image format: header size"
        /\ pos = 12
        /\ bytes_read = 12
        /\ new_ciff.content_size = 0
        /\ new_ciff.width = 0
        /\ new_ciff.height = 0
        /\ new_ciff.caption = <<>>
        /\ new_ciff.tags = <<>>
        /\ new_ciff.pixels = <<>>

C13_Witness ==
    /\ Returned
    /\ HasHeaderSize
    /\ FileHeaderSize = 37
    /\ new_ciff.header_size = 37
    /\ ~new_ciff.is_valid
\* the file starts with "CIFF" and its four size fields are there
HasSizes ==
    /\ Opened
    /\ Len(file) >= 36
    /\ SubSeq(file, 1, 4) = <<67, 73, 70, 70>>

FileContentSize == Unpack(SubSeq(file, 13, 20))
FileWidth == Unpack(SubSeq(file, 21, 28))
FileHeight == Unpack(SubSeq(file, 29, 36))

\* C14: a file with magic "CIFF", header_size >= 38 and content_size other
\* than width * height * 3 is rejected with the content-size message before
\* the caption: 36 bytes have been consumed and caption, tags and pixels are
\* empty, whatever follows.
C14_ContentSizeMismatch ==
    (Returned /\ HasSizes /\ FileHeaderSize >= 38
        /\ FileContentSize # FileWidth * FileHeight * 3) =>
        /\ ~new_ciff.is_valid
        /\ new_ciff.error_message =
              "Invalid image format: content size not equal to width*height*3"
        /\ pos = 36
        /\ bytes_read = 36
        /\ new_ciff.caption = <<>>
        /\ new_ciff.tags = <<>>
        /\ new_ciff.pixels = <<>>

C14_Witness ==
    /\ Returned
    /\ HasSizes
    /\ FileHeaderSize = 39
    /\ FileContentSize = 4
    /\ FileWidth = 1
    /\ FileHeight = 1
    /\ ~new_ciff.is_valid
\* the caption loop has ended on a newline at an offset >= header_size
CaptionOverrun == pc = "tags" /\ bytes_read > new_ciff.header_size

\* C15: when the newline that ends the caption lies at an offset >=
\* header_size, the tag loop never exits normally and the call ends with
\* is_valid = false.
C15_CaptionOverrunRejected ==
    /\ [](pc = "tagcheck" => bytes_read = new_ciff.header_size)
    /\ CaptionOverrun ~> (pc = "done" /\ ~new_ciff.is_valid)

C15_Witness ==
    /\ Returned
    /\ ~new_ciff.is_valid
    /\ new_ciff.header_size = 38
    /\ Len(new_ciff.caption) = 2
    /\ bytes_read = 40
    /\ new_ciff.error_message = "Invalid image: tags"
\* the offsets (counted from 1) of the tag region of an accepted file
TagRegion == (36 + Len(new_ciff.caption) + 2)..new_ciff.header_size

\* C16: no accepted file has a newline in its tag region, and no tag of an
\* accepted record contains a newline.
C16_NoNewlineInTags ==
    Accepted =>
        /\ \A i \in TagRegion : file[i] # 10
        /\ \A i \in 1..Len(new_ciff.tags) :
              \A j \in 1..Len(new_ciff.tags[i]) : new_ciff.tags[i][j] # 10

C16_Witness ==
    /\ Returned
    /\ ~new_ciff.is_valid
    /\ run = "stream"
    /\ new_ciff.header_size = 39
    /\ new_ciff.caption = <<>>
    /\ SubSeq(file, 37, Len(file)) = <<10, 65, 10>>
    /\ new_ciff.error_message = "Invalid image: tags"

\* C17: an accepted file has no byte >= 0x80 in its magic, its caption or its
\* tag region, and a decode error never comes from the pixels, whose bytes
\* may have any value.
C17_AsciiHeader ==
    /\ Accepted =>
          \A i \in (1..4) \cup (37..new_ciff.header_size) : file[i] < 128
    /\ exc.cls = "UnicodeDecodeError" =>
          /\ new_ciff.pixels = <<>>
          /\ new_ciff.tags = <<>>
          /\ IF pos = 4
             THEN \E i \in 1..4 : file[i] >= 128
             ELSE pos > 36 /\ file[pos] >= 128

C17_Witness ==
    /\ Accepted
    /\ run = "stream"
    /\ Len(new_ciff.pixels) = 2
    /\ new_ciff.pixels[2][1] = 255
    /\ new_ciff.tags # <<>>
\* C19: the record of an accepted file reproduces its header region: caption,
\* newline and the tags in order are the bytes of the file from offset 36 to
\* header_size - 1, and every tag has one null byte, its last.
C19_HeaderReproduced ==
    Accepted =>
        /\ new_ciff.caption \o <<10>> \o Flatten(new_ciff.tags)
              = SubSeq(file, 37, new_ciff.header_size)
        /\ \A i \in 1..Len(new_ciff.tags) :
              {j \in 1..Len(new_ciff.tags[i]) : new_ciff.tags[i][j] = 0}
                 = {Len(new_ciff.tags[i])}

C19_Witness ==
    /\ Accepted
    /\ run = "stream"
    /\ new_ciff.header_size = 39
    /\ new_ciff.tags = <<<<0>>, <<0>>>>

\* C20: the tags collected by the tag loop are never empty and always end
\* with a null byte, so the verification after the loop never raises.
C20_VerificationNeverFails ==
    /\ \A i \in 1..Len(tags) : tags[i] # <<>> /\ tags[i][Len(tags[i])] = 0
    /\ pc = "tagcheck" => FirstBadTag(tags) = 0
    /\ exc.cls # "IndexError"

C20_Witness ==
    /\ pc = "tagcheck"
    /\ run = "stream"
    /\ Len(tags) = 1
    /\ Len(tags[1]) = 2
\* the size fields of the file as unbounded integers
WideFileContentSize == Norm(SubSeq(file, 13, 20))
WideFileProduct ==
    IntMul(IntMul(Norm(SubSeq(file, 21, 28)), Norm(SubSeq(file, 29, 36))),
           <<3>>)

\* the comparison of content_size with width * height * 3 has been made
SizesCompared ==
    /\ HasSizes
    /\ FileHeaderSize >= 38
    /\ pc \in {"caption", "except", "return", "done"}

\* C18: the size fields are read as unsigned 64-bit values and width * height
\* * 3 is computed exactly: a file whose product is >= 2^64 is rejected with
\* the content-size message even when content_size equals the product modulo
\* 2^64, and a file that passes the comparison has content_size equal to the
\* product, which is then below 2^64.
C18_NoWraparound ==
    SizesCompared =>
        /\ new_ciff.content_size = WideFileContentSize
        /\ Len(WideFileProduct) > 8 =>
              /\ pc # "caption"
              /\ exc.msg =
                   "Invalid image format: content size not equal to width*height*3"
              /\ pc = "done" => ~new_ciff.is_valid
        /\ pc = "caption" =>
              /\ WideFileContentSize = WideFileProduct
              /\ Len(WideFileProduct) <= 8

C18_Witness ==
    /\ Returned
    /\ run = "wide"
    /\ SizesCompared
    /\ ~new_ciff.is_valid
    /\ WideFileContentSize = <<>>
    /\ SubSeq(file, 21, 28) = <<0, 0, 0, 0, 0, 0, 0, 128>>
    /\ SubSeq(file, 29, 36) = Pack(2)
    /\ Wrap64(WideFileProduct) = WideFileContentSize
====
